---- MODULE Spec2Model ----
(***************************************************************************)
(* Model of the five-letters bot (src/bot.py): the dictionary filter       *)
(* generate_real_words, the two input validators, and the four-step        *)
(* conversation driven by telegram.ext.ConversationHandler.                *)
(*                                                                         *)
(* Text is modelled as Python models it: a str is a sequence of Unicode    *)
(* code points (naturals), so that the range comparisons of the source     *)
(* ('a' <= c <= 'z', the Cyrillic range of is_russian_letter) are the      *)
(* comparisons the model makes.  Characters are written by name through    *)
(* ord, because the module text itself is ASCII.                           *)
(***************************************************************************)
EXTENDS Integers, Sequences, FiniteSets, TLC

VARIABLES
    DICTIONARY,     \* the dictionary set, as the sequence its iteration yields
    conversations,  \* ConversationHandler state, per (chat id, user id) key
    user_data,      \* context.user_data, per user id
    accepted,       \* per conversation: the values accepted so far in its session
    last            \* what the last handled update did: reply sent, search made

vars == <<DICTIONARY, conversations, user_data, accepted, last>>

(***************************************************************************)
(* Characters and Python's str primitives                                  *)
(***************************************************************************)

\* Code point of a character, by name.  cyr_* are the lower-case Cyrillic
\* letters, CYR_A the capital A (U+0410), sup2 the superscript two (U+00B2).
ord(c) ==
    CASE c = "cyr_a" -> 1072 [] c = "cyr_b" -> 1073 [] c = "cyr_v" -> 1074
      [] c = "cyr_ya" -> 1103 [] c = "cyr_yo" -> 1105 [] c = "CYR_A" -> 1040
      [] c = "CYR_YO" -> 1025
      [] c = "a" -> 97 [] c = "z" -> 122 [] c = "A" -> 65 [] c = "Z" -> 90
      [] c = "0" -> 48 [] c = "1" -> 49 [] c = "2" -> 50 [] c = "3" -> 51
      [] c = "4" -> 52 [] c = "5" -> 53 [] c = "6" -> 54 [] c = "9" -> 57
      [] c = "sup2" -> 178
      [] c = "-" -> 45 [] c = " " -> 32 [] c = "," -> 44 [] c = ":" -> 58
      [] c = "=" -> 61 [] c = "!" -> 33 [] c = "\n" -> 10

\* A str literal: the sequence of the code points of the named characters.
RECURSIVE Str(_)
Str(names) == IF names = <<>> THEN <<>> ELSE <<ord(Head(names))>> \o Str(Tail(names))

\* c.isdigit(): the decimal digits and, among the characters used here, the
\* superscript two, which str.isdigit accepts and int() does not.
isdigit(c) == (ord("0") <= c /\ c <= ord("9")) \/ c = ord("sup2")

\* Whether int(s) of a non-empty run of isdigit characters succeeds.
int_ok(s) == \A i \in 1..Len(s) : ord("0") <= s[i] /\ s[i] <= ord("9")

RECURSIVE int(_)
int(s) == IF s = <<>> THEN 0
          ELSE 10 * int(SubSeq(s, 1, Len(s) - 1)) + (s[Len(s)] - ord("0"))

\* c.isspace() for the characters used here.
isspace(c) == c \in {9, 10, 11, 12, 13, 32}

\* str.lower() on one character: Latin and Cyrillic capitals.
lower_char(c) ==
    IF (ord("A") <= c /\ c <= ord("Z")) \/ (ord("CYR_A") <= c /\ c <= ord("CYR_A") + 31)
    THEN c + 32
    ELSE IF c = ord("CYR_YO") THEN ord("cyr_yo") ELSE c

RECURSIVE lower(_)
lower(s) == IF s = <<>> THEN <<>> ELSE <<lower_char(Head(s))>> \o lower(Tail(s))

RECURSIVE lstrip(_)
lstrip(s) == IF s # <<>> /\ isspace(Head(s)) THEN lstrip(Tail(s)) ELSE s

RECURSIVE rstrip(_)
rstrip(s) == IF s # <<>> /\ isspace(s[Len(s)])
             THEN rstrip(SubSeq(s, 1, Len(s) - 1)) ELSE s

strip(s) == rstrip(lstrip(s))

\* s.replace(old, new) for a one-character old and a new of length 0 or 1.
RECURSIVE replace(_, _, _)
replace(s, old, new) ==
    IF s = <<>> THEN <<>>
    ELSE (IF Head(s) = old THEN new ELSE <<Head(s)>>) \o replace(Tail(s), old, new)

\* s.split(): the maximal runs of non-whitespace characters, in order.
RECURSIVE split_from(_, _)
split_from(s, cur) ==
    IF s = <<>> THEN (IF cur = <<>> THEN <<>> ELSE <<cur>>)
    ELSE IF isspace(Head(s))
         THEN (IF cur = <<>> THEN <<>> ELSE <<cur>>) \o split_from(Tail(s), <<>>)
         ELSE split_from(Tail(s), Append(cur, Head(s)))

split(s) == split_from(s, <<>>)

\* c in s, for a character c and a str s.
In(c, s) == \E i \in 1..Len(s) : s[i] = c

\* a in s, for two strs: a occurs in s as a substring.
Substr(a, s) == \E i \in 1..(Len(s) - Len(a) + 1) : SubSeq(s, i, i + Len(a) - 1) = a

\* set(s): the set of the one-character strs of s.
Chars(s) == {<<s[i]>> : i \in 1..Len(s)}

\* is_russian_letter(c): 'a' <= c <= 'ya' of the Cyrillic block, or yo.
is_russian_letter(c) ==
    (ord("cyr_a") <= c /\ c <= ord("cyr_ya")) \/ c = ord("cyr_yo")

\* "".join(c for c in s if is_russian_letter(c))
RECURSIVE russian_letters(_)
russian_letters(s) ==
    IF s = <<>> THEN <<>>
    ELSE (IF is_russian_letter(Head(s)) THEN <<Head(s)>> ELSE <<>>)
         \o russian_letters(Tail(s))

\* any('a' <= c <= 'z' for c in text)
has_english(s) == \E i \in 1..Len(s) : ord("a") <= s[i] /\ s[i] <= ord("z")

(***************************************************************************)
(* Dictionary and word filter                                              *)
(***************************************************************************)

\* dict.get(key, default); a dict is a function on the set of its keys.
get(d, key, default) == IF key \in DOMAIN d THEN d[key] ELSE default

\* d[key] = value
put(d, key, value) == (key :> value) @@ d

\* The sequences that list every element of the set S exactly once.
Orders(S) ==
    {q \in [1..Cardinality(S) -> S] : \A i, j \in 1..Cardinality(S) : q[i] = q[j] => i = j}

\* {line.strip() for line in f if line.strip()}: the set of the stripped,
\* non-blank lines of the file.
load_dictionary(lines) ==
    {strip(lines[i]) : i \in {k \in 1..Len(lines) : strip(lines[k]) # <<>>}}

\* word_matches without the test of the excluded positions.
word_matches_without_excluded_positions(word, required_chars, excluded_chars, required_positions, excluded_positions) ==
    /\ Len(word) = 5
    /\ \A i \in 1..Len(required_chars) : In(required_chars[i], word)
    /\ ~ \E i \in 1..Len(excluded_chars) : In(excluded_chars[i], word)
    /\ \A pos \in DOMAIN required_positions : <<word[pos]>> = required_positions[pos]

\* The stripped non-blank lines in file order: a list comprehension in
\* place of the set comprehension.
RECURSIVE lines_as_list(_)
lines_as_list(lines) ==
    IF lines = <<>> THEN <<>>
    ELSE (IF strip(Head(lines)) # <<>> THEN <<strip(Head(lines))>> ELSE <<>>)
         \o lines_as_list(Tail(lines))

dictionary_kept_as_list(lines) == {lines_as_list(lines)}

\* DICTIONARY as the loop "for word in DICTIONARY" meets it: the orders in
\* which iterating the loaded set can yield its words.
dictionary_iterations(lines) == Orders(load_dictionary(lines))

\* The test generate_real_words makes on one word of the dictionary.
word_matches(word, required_chars, excluded_chars, required_positions, excluded_positions) ==
    /\ Len(word) = 5
    /\ \A i \in 1..Len(required_chars) : In(required_chars[i], word)
    /\ ~ \E i \in 1..Len(excluded_chars) : In(excluded_chars[i], word)
    /\ \A pos \in DOMAIN required_positions : <<word[pos]>> = required_positions[pos]
    /\ ~ \E pos \in DOMAIN excluded_positions : In(word[pos], excluded_positions[pos])

\* real_words.append(word), for a word that passed the tests.
append_if(real_words, word, matches) ==
    IF matches THEN Append(real_words, word) ELSE real_words

\* The loop of generate_real_words over the first n words of the iteration.
RECURSIVE real_words_upto(_, _, _, _, _)
real_words_upto(n, required_chars, excluded_chars, required_positions, excluded_positions) ==
    IF n = 0 THEN <<>>
    ELSE append_if(real_words_upto(n - 1, required_chars, excluded_chars,
                                   required_positions, excluded_positions),
                   DICTIONARY[n],
                   word_matches(DICTIONARY[n], required_chars, excluded_chars,
                                required_positions, excluded_positions))

generate_real_words(required_chars, excluded_chars, required_positions, excluded_positions) ==
    real_words_upto(Len(DICTIONARY), required_chars, excluded_chars,
                    required_positions, excluded_positions)

(***************************************************************************)
(* Input validators                                                        *)
(***************************************************************************)

\* validate_letters_input with the test of English letters made first.
validate_letters_input_english_first(text) ==
    IF text = Str(<<"-">>) THEN [is_valid |-> TRUE, error_msg |-> "none"]
    ELSE IF has_english(text)
    THEN [is_valid |-> FALSE, error_msg |-> "ForeignAlphabet"]
    ELSE IF \E i \in 1..Len(text) : isdigit(text[i])
    THEN [is_valid |-> FALSE, error_msg |-> "InvalidCharacters"]
    ELSE IF russian_letters(text) = <<>>
    THEN [is_valid |-> FALSE, error_msg |-> "NoValidLetters"]
    ELSE [is_valid |-> TRUE, error_msg |-> "none"]

\* validate_letters_input(text) -> (is_valid, error_msg); the message is
\* modelled by the name of the error it reports.
validate_letters_input(text) ==
    IF text = Str(<<"-">>) THEN [is_valid |-> TRUE, error_msg |-> "none"]
    ELSE IF \E i \in 1..Len(text) : isdigit(text[i])
    THEN [is_valid |-> FALSE, error_msg |-> "InvalidCharacters"]
    ELSE IF has_english(text)
    THEN [is_valid |-> FALSE, error_msg |-> "ForeignAlphabet"]
    ELSE IF russian_letters(text) = <<>>
    THEN [is_valid |-> FALSE, error_msg |-> "NoValidLetters"]
    ELSE [is_valid |-> TRUE, error_msg |-> "none"]

\* The leading run of isdigit characters of a token.
RECURSIVE digit_run(_)
digit_run(part) ==
    IF part # <<>> /\ isdigit(Head(part))
    THEN <<Head(part)>> \o digit_run(Tail(part)) ELSE <<>>

\* The checks without the test of len(pos_str) > 1.
check_part_without_multi_digit(pos_str, chars, russian_chars, single_char_only) ==
    IF pos_str = <<>> THEN [kind |-> "MissingPosition"]
    ELSE IF chars = <<>> THEN [kind |-> "MissingLetters"]
    ELSE IF ~ int_ok(pos_str) THEN [kind |-> "ValueError"]
    ELSE IF int(pos_str) < 1 \/ int(pos_str) > 5 THEN [kind |-> "PositionOutOfRange"]
    ELSE IF russian_chars = <<>> THEN [kind |-> "NoValidLetters"]
    ELSE IF single_char_only /\ Len(russian_chars) > 1 THEN [kind |-> "TooManyLetters"]
    ELSE [kind |-> "ok", pos |-> int(pos_str), chars |-> russian_chars]

\* The checks the token loop makes on one token, given its digit run, the
\* rest of the token and the Russian letters of the rest.
check_part(pos_str, chars, russian_chars, single_char_only) ==
    IF Len(pos_str) > 1 THEN [kind |-> "MultiDigitPosition"]
    ELSE IF pos_str = <<>> THEN [kind |-> "MissingPosition"]
    ELSE IF chars = <<>> THEN [kind |-> "MissingLetters"]
    ELSE IF ~ int_ok(pos_str) THEN [kind |-> "ValueError"]
    ELSE IF int(pos_str) < 1 \/ int(pos_str) > 5 THEN [kind |-> "PositionOutOfRange"]
    ELSE IF russian_chars = <<>> THEN [kind |-> "NoValidLetters"]
    ELSE IF single_char_only /\ Len(russian_chars) > 1 THEN [kind |-> "TooManyLetters"]
    ELSE [kind |-> "ok", pos |-> int(pos_str), chars |-> russian_chars]

\* The split of a token after its digit run.
split_part(part, pos_str, single_char_only) ==
    check_part(pos_str,
               SubSeq(part, Len(pos_str) + 1, Len(part)),
               russian_letters(SubSeq(part, Len(pos_str) + 1, Len(part))),
               single_char_only)

\* One pass of the token loop of validate_positions_input.
parse_part(part, single_char_only) ==
    split_part(part, digit_run(part), single_char_only)

\* add_part with the letters of a token added to those the position has.
add_part_merging(before, part, p) ==
    IF before.raised THEN before
    ELSE IF p.kind = "ValueError" THEN [before EXCEPT !.raised = TRUE]
    ELSE IF p.kind = "ok"
         THEN [before EXCEPT !.result = put(before.result, p.pos,
                                            get(before.result, p.pos, <<>>) \o p.chars)]
    ELSE [before EXCEPT !.errors = Append(@, [part |-> part, kind |-> p.kind])]

\* What one token does to the dict and the error list built before it; an
\* exception ends the loop.
add_part(before, part, p) ==
    IF before.raised THEN before
    ELSE IF p.kind = "ValueError" THEN [before EXCEPT !.raised = TRUE]
    ELSE IF p.kind = "ok"
         THEN [before EXCEPT !.result = put(before.result, p.pos, p.chars)]
    ELSE [before EXCEPT !.errors = Append(@, [part |-> part, kind |-> p.kind])]

\* The token loop over the first n tokens: the dict built so far, the error
\* list so far, and whether the loop was left by an exception.
RECURSIVE parse_parts(_, _, _)
parse_parts(parts, n, single_char_only) ==
    IF n = 0 THEN [result |-> <<>>, errors |-> <<>>, raised |-> FALSE]
    ELSE add_part(parse_parts(parts, n - 1, single_char_only),
                  parts[n],
                  parse_part(parts[n], single_char_only))

\* A return of validate_positions_input.
positions_return(is_valid, error_msg, errors, parsed_positions) ==
    [is_valid |-> is_valid, error_msg |-> error_msg, errors |-> errors,
     parsed_positions |-> parsed_positions, raised |-> FALSE]

\* The end of validate_positions_input, after the token loop.
positions_after_loop(loop) ==
    IF loop.raised
    THEN [is_valid |-> FALSE, error_msg |-> "ValueError", errors |-> <<>>,
          parsed_positions |-> <<>>, raised |-> TRUE]
    ELSE IF loop.errors # <<>>
    THEN positions_return(FALSE, "InvalidPositionInput", loop.errors, <<>>)
    ELSE IF DOMAIN loop.result = {}
    THEN positions_return(FALSE, "NoPositionsRecognized", <<>>, <<>>)
    ELSE positions_return(TRUE, "none", <<>>, loop.result)

\* validate_positions_input once the text is split into its tokens.
positions_of_parts(parts, single_char_only) ==
    IF parts = <<>> THEN positions_return(FALSE, "NoPositionsRecognized", <<>>, <<>>)
    ELSE positions_after_loop(parse_parts(parts, Len(parts), single_char_only))

\* text.replace(",", " ").replace(":", "").replace("=", "").split()
position_parts(text) ==
    split(replace(replace(replace(text, ord(","), <<ord(" ")>>), ord(":"), <<>>),
                  ord("="), <<>>))

\* validate_positions_input after text = text.lower().strip().
positions_of_lowered(text, single_char_only) ==
    IF has_english(text) THEN positions_return(FALSE, "ForeignAlphabet", <<>>, <<>>)
    ELSE positions_of_parts(position_parts(text), single_char_only)

\* validate_positions_input(text, single_char_only)
\*   -> (is_valid, error_msg, parsed_positions), or an exception (raised).
validate_positions_input(text, single_char_only) ==
    IF strip(text) = Str(<<"-">>) THEN positions_return(TRUE, "none", <<>>, <<>>)
    ELSE positions_of_lowered(strip(lower(text)), single_char_only)

(***************************************************************************)
(* Inputs                                                                  *)
(***************************************************************************)

\* The conversation keys: one user who talks to the bot in two chats, a
\* private chat and a group.
Keys == {<<"private", "user">>, <<"group", "user">>}

\* The lines of rus.txt the session specification loads: one word of five
\* letters, twice, and a blank line.
DictionaryFile ==
    << Str(<<"cyr_b", "cyr_v", "cyr_v", "cyr_v", "cyr_a", "\n">>),
       Str(<<"\n">>),
       Str(<<"cyr_b", "cyr_v", "cyr_v", "cyr_v", "cyr_a">>) >>

\* The message texts a user sends, in any state.
LetterTexts ==
    { Str(<<"-">>),
      Str(<<" ", "CYR_A", "!">>) }

PositionTexts ==
    { Str(<<"1", "cyr_a">>),
      Str(<<"1", ":", "cyr_b">>),
      Str(<<"1", "cyr_a", " ", "2", "cyr_a", " ", "3", "cyr_a", " ", "4", "cyr_a", " ", "5", "cyr_a">>),
      Str(<<"1", "cyr_a", ",", "2", "cyr_a", ",", "3", "cyr_a", ",", "4", "cyr_a">>),
      Str(<<"2", "cyr_a", " ", "3", "cyr_a", " ", "4", "cyr_a", " ", "5", "cyr_a">>),
      Str(<<"1", "2", "cyr_a", " ", "6", "cyr_b">>),
      Str(<<"sup2", "cyr_a">>) }

Texts == LetterTexts \cup PositionTexts

\* The validators are pure: their results on the texts sent, tabulated.
\* lowered[t] is update.message.text.lower().strip() of the letters handlers.
lowered == [t \in Texts |-> strip(lower(t))]

letters_validated == [t \in Texts |-> validate_letters_input(lowered[t])]

positions_validated ==
    [t \in Texts |-> [single_char_only \in BOOLEAN |->
        validate_positions_input(strip(t), single_char_only)]]

(***************************************************************************)
(* Conversation                                                            *)
(***************************************************************************)

\* REQUIRED, EXCLUDED, REQUIRED_POSITIONS, EXCLUDED_POSITIONS = range(4)
REQUIRED == 0
EXCLUDED == 1
REQUIRED_POSITIONS == 2
EXCLUDED_POSITIONS == 3
\* ConversationHandler.END: the key has no conversation.
END == -1

\* A conversation key is (chat id, user id): the handler is built with the
\* defaults per_chat=True, per_user=True.  context.user_data is keyed by
\* the user id alone.
user_of(key) == key[2]

\* The record of one handled update.  reply names the message sent
\* ("none" when the handler raised before replying), error the reason of a
\* rejection, search the calls of generate_real_words the update made.
Outcome(key, handler, reply, error, search) ==
    [key |-> key, handler |-> handler, reply |-> reply, error |-> error,
     search |-> search]

\* set(required) & set(excluded) of get_excluded.
excluded_conflicting(required, excluded) == Chars(required) \cap Chars(excluded)

\* set(required_positions.values()) & set(excluded) of get_required_positions.
positions_conflicting(required_positions, excluded) ==
    {required_positions[p] : p \in DOMAIN required_positions} \cap Chars(excluded)

\* get_excluded_positions without its test of the overlapping positions.
position_conflicts_unchecked(required_positions, excluded_positions) == {}

\* position_conflicts of get_excluded_positions: the positions whose fixed
\* letter is among the letters excluded from that position.
position_conflicts(required_positions, excluded_positions) ==
    {pos \in DOMAIN excluded_positions :
        /\ pos \in DOMAIN required_positions
        /\ Substr(required_positions[pos], excluded_positions[pos])}

\* sum(1 for chars in excluded_positions.values() if req_char in chars)
excluded_from_positions(req_char, excluded_positions) ==
    Cardinality({pos \in DOMAIN excluded_positions : In(req_char, excluded_positions[pos])})

\* sum(1 for pos, char in required_positions.items() if char != req_char)
occupied_positions(req_char, required_positions) ==
    Cardinality({pos \in DOMAIN required_positions : required_positions[pos] # <<req_char>>})

\* The test with > in place of >=.
excluded_everywhere_above(req_char, required_positions, excluded_positions) ==
    excluded_from_positions(req_char, excluded_positions)
        + occupied_positions(req_char, required_positions) > 5

\* The test that makes get_excluded_positions reject for req_char.
excluded_everywhere(req_char, required_positions, excluded_positions) ==
    excluded_from_positions(req_char, excluded_positions)
        + occupied_positions(req_char, required_positions) >= 5

\* The indexes of required whose letter the loop of get_excluded_positions
\* rejects; the loop returns at the first.
rejected_required(required, required_positions, excluded_positions) ==
    {i \in 1..Len(required) :
        excluded_everywhere(required[i], required_positions, excluded_positions)}

\* The reply and log record of a rejected input: the handler returns the
\* state it was called in, so only the record of the update changes here.
Rejected(key, handler, error) ==
    last' = Outcome(key, handler, "error", error, <<>>)

\* An exception leaves the handler before any reply and before it returns a
\* state: the ConversationHandler keeps the state of the key.
Raised(key, handler, error) ==
    last' = Outcome(key, handler, "none", error, <<>>)

\* The reply of a handler that accepted its input and asks for the next.
Asked(key, handler, reply) ==
    last' = Outcome(key, handler, reply, "none", <<>>)

\* start without context.user_data.clear().
start_without_clear(key) ==
    /\ conversations[key] = END
    /\ conversations' = [conversations EXCEPT ![key] = REQUIRED]
    /\ accepted' = [accepted EXCEPT ![key] = <<>>]
    /\ Asked(key, "start", "ask_required")
    /\ UNCHANGED <<DICTIONARY, user_data>>

\* start returning EXCLUDED in place of REQUIRED.
start_at_excluded(key) ==
    /\ conversations[key] = END
    /\ user_data' = [user_data EXCEPT ![user_of(key)] = <<>>]
    /\ conversations' = [conversations EXCEPT ![key] = EXCLUDED]
    /\ accepted' = [accepted EXCEPT ![key] = <<>>]
    /\ Asked(key, "start", "ask_required")
    /\ UNCHANGED DICTIONARY

\* /start, an entry point: taken only while the key has no conversation.
start(key) ==
    /\ conversations[key] = END
    /\ user_data' = [user_data EXCEPT ![user_of(key)] = <<>>]
    /\ conversations' = [conversations EXCEPT ![key] = REQUIRED]
    /\ accepted' = [accepted EXCEPT ![key] = <<>>]
    /\ Asked(key, "start", "ask_required")
    /\ UNCHANGED DICTIONARY

\* context.user_data[name] = value, for the user of the key.
store(key, name, value) ==
    user_data' = [user_data EXCEPT ![user_of(key)] = put(@, name, value)]

\* The letters a letters handler keeps of a valid text.
letters_of(text) == IF text = Str(<<"-">>) THEN <<>> ELSE russian_letters(text)

get_required(key, message_text) ==
    /\ conversations[key] = REQUIRED
    /\ \E text \in {lowered[message_text]} :
       \E v \in {letters_validated[message_text]} :
          \/ /\ ~ v.is_valid
             /\ Rejected(key, "get_required", v.error_msg)
             /\ UNCHANGED <<DICTIONARY, conversations, user_data, accepted>>
          \/ /\ v.is_valid
             /\ store(key, "required", letters_of(text))
             /\ accepted' = [accepted EXCEPT ![key] = put(@, "required", letters_of(text))]
             /\ conversations' = [conversations EXCEPT ![key] = EXCLUDED]
             /\ Asked(key, "get_required", "ask_excluded")
             /\ UNCHANGED DICTIONARY

get_excluded(key, message_text) ==
    /\ conversations[key] = EXCLUDED
    /\ \E text \in {lowered[message_text]} :
       \E v \in {letters_validated[message_text]} :
       \E excluded \in {letters_of(text)} :
       \E conflicting \in
            {excluded_conflicting(get(user_data[user_of(key)], "required", <<>>), excluded)} :
          \/ /\ ~ v.is_valid
             /\ Rejected(key, "get_excluded", v.error_msg)
             /\ UNCHANGED <<DICTIONARY, conversations, user_data, accepted>>
          \/ /\ v.is_valid
             /\ conflicting # {}
             /\ store(key, "excluded", excluded)
             /\ Rejected(key, "get_excluded", "RequiredExcludedConflict")
             /\ UNCHANGED <<DICTIONARY, conversations, accepted>>
          \/ /\ v.is_valid
             /\ conflicting = {}
             /\ store(key, "excluded", excluded)
             /\ accepted' = [accepted EXCEPT ![key] = put(@, "excluded", excluded)]
             /\ conversations' = [conversations EXCEPT ![key] = REQUIRED_POSITIONS]
             /\ Asked(key, "get_excluded", "ask_required_positions")
             /\ UNCHANGED DICTIONARY

\* {k: v for k, v in positions.items() if v}
without_empty(positions) ==
    [k \in {p \in DOMAIN positions : positions[p] # <<>>} |-> positions[k]]

get_required_positions(key, message_text) ==
    /\ conversations[key] = REQUIRED_POSITIONS
    /\ \E v \in {positions_validated[message_text][TRUE]} :
       \E required_positions \in {without_empty(v.parsed_positions)} :
       \E conflicting \in
            {positions_conflicting(required_positions,
                                   get(user_data[user_of(key)], "excluded", <<>>))} :
          \/ /\ v.raised
             /\ Raised(key, "get_required_positions", v.error_msg)
             /\ UNCHANGED <<DICTIONARY, conversations, user_data, accepted>>
          \/ /\ ~ v.raised /\ ~ v.is_valid
             /\ Rejected(key, "get_required_positions", v.error_msg)
             /\ UNCHANGED <<DICTIONARY, conversations, user_data, accepted>>
          \/ /\ v.is_valid
             /\ conflicting # {}
             /\ store(key, "required_positions", required_positions)
             /\ Rejected(key, "get_required_positions", "PositionLetterConflict")
             /\ UNCHANGED <<DICTIONARY, conversations, accepted>>
          \/ /\ v.is_valid
             /\ conflicting = {}
             /\ store(key, "required_positions", required_positions)
             /\ accepted' = [accepted EXCEPT ![key] =
                                  put(@, "required_positions", required_positions)]
             /\ conversations' = [conversations EXCEPT ![key] = EXCLUDED_POSITIONS]
             /\ Asked(key, "get_required_positions", "ask_excluded_positions")
             /\ UNCHANGED DICTIONARY

\* The call of generate_real_words with its arguments and the list it returns.
search_call(required, excluded, required_positions, excluded_positions) ==
    [required_chars |-> required, excluded_chars |-> excluded,
     required_positions |-> required_positions,
     excluded_positions |-> excluded_positions,
     found_words |-> generate_real_words(required, excluded,
                                         required_positions, excluded_positions)]

\* The search get_excluded_positions makes once its checks have passed, with
\* the arguments it reads back from user_data.
search_of(data) ==
    search_call(get(data, "required", <<>>), get(data, "excluded", <<>>),
                get(data, "required_positions", <<>>), data["excluded_positions"])

\* The message with the threshold of 50 applied to the words shown only.
result_message_without_count(found_words) ==
    IF found_words # <<>>
    THEN [kind |-> "found", total |-> Len(found_words),
          words |-> SubSeq(found_words, 1, IF Len(found_words) <= 50
                                           THEN Len(found_words) ELSE 50),
          truncated |-> FALSE, more |-> 0]
    ELSE [kind |-> "not_found", total |-> 0, words |-> <<>>,
          truncated |-> FALSE, more |-> 0]

\* The message get_excluded_positions forms of the list found: the total,
\* the words shown, and beyond 50 words the count of those not shown.
result_message(found_words) ==
    IF found_words # <<>>
    THEN IF Len(found_words) <= 50
         THEN [kind |-> "found", total |-> Len(found_words),
               words |-> found_words, truncated |-> FALSE, more |-> 0]
         ELSE [kind |-> "found", total |-> Len(found_words),
               words |-> SubSeq(found_words, 1, 50), truncated |-> TRUE,
               more |-> Len(found_words) - 50]
    ELSE [kind |-> "not_found", total |-> 0, words |-> <<>>,
          truncated |-> FALSE, more |-> 0]

\* The reply that reports a search.
Reported(key, call) ==
    last' = Outcome(key, "get_excluded_positions",
                    result_message(call.found_words).kind, "none", <<call>>)

\* get_excluded_positions with the loop over the required letters made
\* before the test of the overlapping positions.
get_excluded_positions_exclusion_first(key, message_text) ==
    /\ conversations[key] = EXCLUDED_POSITIONS
    /\ \E v \in {positions_validated[message_text][FALSE]} :
       \E data \in {user_data[user_of(key)]} :
       \E required_positions \in {get(data, "required_positions", <<>>)} :
       \E conflicts \in {position_conflicts(required_positions, v.parsed_positions)} :
       \E everywhere \in {rejected_required(get(data, "required", <<>>),
                                            required_positions, v.parsed_positions)} :
          \/ /\ v.raised
             /\ Raised(key, "get_excluded_positions", v.error_msg)
             /\ UNCHANGED <<DICTIONARY, conversations, user_data, accepted>>
          \/ /\ ~ v.raised /\ ~ v.is_valid
             /\ Rejected(key, "get_excluded_positions", v.error_msg)
             /\ UNCHANGED <<DICTIONARY, conversations, user_data, accepted>>
          \/ /\ v.is_valid
             /\ everywhere = {}
             /\ conflicts # {}
             /\ Rejected(key, "get_excluded_positions", "PositionOverlapConflict")
             /\ UNCHANGED <<DICTIONARY, conversations, user_data, accepted>>
          \/ /\ v.is_valid
             /\ everywhere # {}
             /\ Rejected(key, "get_excluded_positions", "LetterFullyExcludedConflict")
             /\ UNCHANGED <<DICTIONARY, conversations, user_data, accepted>>
          \/ /\ v.is_valid
             /\ conflicts = {}
             /\ everywhere = {}
             /\ store(key, "excluded_positions", v.parsed_positions)
             /\ accepted' = [accepted EXCEPT ![key] = <<>>]
             /\ conversations' = [conversations EXCEPT ![key] = END]
             /\ \E call \in {search_of(put(data, "excluded_positions", v.parsed_positions))} :
                   Reported(key, call)
             /\ UNCHANGED DICTIONARY

get_excluded_positions(key, message_text) ==
    /\ conversations[key] = EXCLUDED_POSITIONS
    /\ \E v \in {positions_validated[message_text][FALSE]} :
       \E data \in {user_data[user_of(key)]} :
       \E required_positions \in {get(data, "required_positions", <<>>)} :
       \E conflicts \in {position_conflicts(required_positions, v.parsed_positions)} :
       \E everywhere \in {rejected_required(get(data, "required", <<>>),
                                            required_positions, v.parsed_positions)} :
          \/ /\ v.raised
             /\ Raised(key, "get_excluded_positions", v.error_msg)
             /\ UNCHANGED <<DICTIONARY, conversations, user_data, accepted>>
          \/ /\ ~ v.raised /\ ~ v.is_valid
             /\ Rejected(key, "get_excluded_positions", v.error_msg)
             /\ UNCHANGED <<DICTIONARY, conversations, user_data, accepted>>
          \/ /\ v.is_valid
             /\ conflicts # {}
             /\ Rejected(key, "get_excluded_positions", "PositionOverlapConflict")
             /\ UNCHANGED <<DICTIONARY, conversations, user_data, accepted>>
          \/ /\ v.is_valid
             /\ conflicts = {}
             /\ everywhere # {}
             /\ Rejected(key, "get_excluded_positions", "LetterFullyExcludedConflict")
             /\ UNCHANGED <<DICTIONARY, conversations, user_data, accepted>>
          \/ /\ v.is_valid
             /\ conflicts = {}
             /\ everywhere = {}
             /\ store(key, "excluded_positions", v.parsed_positions)
             /\ accepted' = [accepted EXCEPT ![key] = <<>>]
             /\ conversations' = [conversations EXCEPT ![key] = END]
             /\ \E call \in {search_of(put(data, "excluded_positions", v.parsed_positions))} :
                   Reported(key, call)
             /\ UNCHANGED DICTIONARY

\* cancel without its return of ConversationHandler.END.
cancel_without_end(key) ==
    /\ conversations[key] # END
    /\ accepted' = [accepted EXCEPT ![key] = <<>>]
    /\ Asked(key, "cancel", "cancelled")
    /\ UNCHANGED <<DICTIONARY, conversations, user_data>>

\* /cancel, the fallback: taken in any state of a conversation.
cancel(key) ==
    /\ conversations[key] # END
    /\ conversations' = [conversations EXCEPT ![key] = END]
    /\ accepted' = [accepted EXCEPT ![key] = <<>>]
    /\ Asked(key, "cancel", "cancelled")
    /\ UNCHANGED <<DICTIONARY, user_data>>

(***************************************************************************)
(* Specifications                                                          *)
(***************************************************************************)


NoUpdate == Outcome(<<>>, "none", "none", "none", <<>>)

\* The state once the module is loaded and the application is built: the
\* dictionary read, no conversation, no user data.
Loaded(lines, keys) ==
    /\ DICTIONARY \in dictionary_iterations(lines)
    /\ conversations = [key \in keys |-> END]
    /\ user_data = [user \in {user_of(key) : key \in keys} |-> <<>>]
    /\ accepted = [key \in keys |-> <<>>]
    /\ last = NoUpdate

Init == Loaded(DictionaryFile, Keys)

Next ==
    \E key \in Keys :
        \/ start(key)
        \/ cancel(key)
        \/ \E text \in Texts :
              \/ get_required(key, text)
              \/ get_excluded(key, text)
              \/ get_required_positions(key, text)
              \/ get_excluded_positions(key, text)

Spec == Init /\ [][Next]_vars

(***************************************************************************)
(* The word filter on its own: generate_real_words called with any         *)
(* arguments, over any of a few dictionaries                               *)
(***************************************************************************)

\* The most positions one position dict of a direct call constrains.
MaxKeys == 1

\* Dictionary files: a word twice around a blank line; two words of five
\* letters, one with a trailing blank; a longer and a shorter word; an empty
\* file.
FilterFiles ==
    { DictionaryFile,
      << Str(<<"cyr_a", "cyr_b", "cyr_v", "cyr_v", "cyr_a", "\n">>),
         Str(<<"cyr_a", "cyr_a", "cyr_a", "cyr_a", "cyr_a", " ", "\n">>) >>,
      << Str(<<"cyr_a", "cyr_b", "cyr_v", "cyr_v", "cyr_a", "cyr_b", "\n">>),
         Str(<<"cyr_a", "cyr_b">>) >>,
      << >> }

\* The letter strings of a direct call.
FilterLetters ==
    { <<>>, Str(<<"cyr_a">>), Str(<<"cyr_b">>), Str(<<"cyr_a", "cyr_b">>) }

\* The dicts from at most MaxKeys positions to the values.
PositionDicts(values) ==
    UNION {[keys -> values] : keys \in {K \in SUBSET (1..5) : Cardinality(K) <= MaxKeys}}

FilterRequiredPositions == PositionDicts({Str(<<"cyr_a">>), Str(<<"cyr_b">>)})

FilterExcludedPositions == PositionDicts(FilterLetters \ {<<>>})

\* A direct call of generate_real_words.
Search(required_chars, excluded_chars, required_positions, excluded_positions) ==
    /\ last' = Outcome(<<>>, "generate_real_words", "none", "none",
                       <<search_call(required_chars, excluded_chars,
                                     required_positions, excluded_positions)>>)
    /\ UNCHANGED <<DICTIONARY, conversations, user_data, accepted>>

FilterInit == \E lines \in FilterFiles : Loaded(lines, Keys)

\* One call in a behaviour: the calls do not depend on one another.
FilterNext ==
    /\ last = NoUpdate
    /\ \E required_chars \in FilterLetters, excluded_chars \in FilterLetters,
          required_positions \in FilterRequiredPositions,
          excluded_positions \in FilterExcludedPositions :
            Search(required_chars, excluded_chars, required_positions, excluded_positions)

FilterSpec == FilterInit /\ [][FilterNext]_vars

(***************************************************************************)
(* Properties of the word filter                                           *)
(***************************************************************************)

\* The four predicates of the filter, stated on a word and a call.
ContainsRequired(word, call) ==
    \A c \in Chars(call.required_chars) : \E i \in 1..Len(word) : <<word[i]>> = c

AvoidsExcluded(word, call) ==
    \A c \in Chars(call.excluded_chars) : \A i \in 1..Len(word) : <<word[i]>> # c

MatchesRequiredPositions(word, call) ==
    \A pos \in DOMAIN call.required_positions :
        pos <= Len(word) /\ <<word[pos]>> = call.required_positions[pos]

AvoidsExcludedPositions(word, call) ==
    \A pos \in DOMAIN call.excluded_positions :
        pos <= Len(word) /\ <<word[pos]>> \notin Chars(call.excluded_positions[pos])

Satisfies(word, call) ==
    /\ Len(word) = 5
    /\ ContainsRequired(word, call)
    /\ AvoidsExcluded(word, call)
    /\ MatchesRequiredPositions(word, call)
    /\ AvoidsExcludedPositions(word, call)

\* How often a word occurs in a list.
Occurrences(word, words) == Cardinality({i \in 1..Len(words) : words[i] = word})

\* C1: every word generate_real_words returns has five letters, contains
\* every required letter and no excluded letter, has the required letter at
\* every required position, and at no excluded position one of the letters
\* excluded there.
C1_FilterSound ==
    \A n \in 1..Len(last.search) :
        \A i \in 1..Len(last.search[n].found_words) :
            Satisfies(last.search[n].found_words[i], last.search[n])

\* A call with all four kinds of constraint that returns a word.
C1_Witness ==
    /\ last.search # <<>>
    /\ last.search[1].found_words # <<>>
    /\ last.search[1].required_chars # <<>>
    /\ last.search[1].excluded_chars # <<>>
    /\ DOMAIN last.search[1].required_positions # {}
    /\ DOMAIN last.search[1].excluded_positions # {}

\* C2: every word of the dictionary that has five letters and satisfies the
\* four predicates is in the list returned exactly once.
C2_FilterComplete ==
    \A n \in 1..Len(last.search) :
        \A k \in 1..Len(DICTIONARY) :
            Satisfies(DICTIONARY[k], last.search[n])
                => Occurrences(DICTIONARY[k], last.search[n].found_words) = 1

\* A call over a dictionary of several words that returns one of them and
\* leaves another out, from a file that holds a word twice or a blank line.
C2_Witness ==
    /\ last.search # <<>>
    /\ Len(DICTIONARY) >= 2
    /\ Len(last.search[1].found_words) = 1
    /\ \E k \in 1..Len(DICTIONARY) :
          Len(DICTIONARY[k]) = 5 /\ ~ Satisfies(DICTIONARY[k], last.search[1])

(***************************************************************************)
(* Properties of the conversation                                          *)
(***************************************************************************)

\* The four states in which the bot collects a fragment.
Collecting == {REQUIRED, EXCLUDED, REQUIRED_POSITIONS, EXCLUDED_POSITIONS}

\* The fragments a conversation has accepted when it is in a state.
AcceptedBefore(state) ==
    CASE state = REQUIRED -> {}
      [] state = EXCLUDED -> {"required"}
      [] state = REQUIRED_POSITIONS -> {"required", "excluded"}
      [] state = EXCLUDED_POSITIONS -> {"required", "excluded", "required_positions"}
      [] OTHER -> {}

\* The last update was handled for a conversation and made a search.
Searched == last.key \in Keys /\ last.search # <<>>

\* A letter (a string of one character) has a position left: one from which
\* it is not excluded and which is not fixed to another letter.
Placeable(letter, required_positions, excluded_positions) ==
    \E pos \in 1..5 :
        /\ ~ (pos \in DOMAIN excluded_positions
                /\ letter \in Chars(excluded_positions[pos]))
        /\ ~ (pos \in DOMAIN required_positions
                /\ required_positions[pos] # letter)

AllPlaceable(required, required_positions, excluded_positions) ==
    \A letter \in Chars(required) :
        Placeable(letter, required_positions, excluded_positions)

\* C3: whenever the word filter is invoked, no letter is both in the required
\* letters and in the excluded letters passed to it.
C3_RequiredExcludedDisjoint ==
    \A n \in 1..Len(last.search) :
        Chars(last.search[n].required_chars)
            \cap Chars(last.search[n].excluded_chars) = {}

\* C4: whenever the word filter is invoked, at no position is the letter
\* fixed there one of the letters excluded from that same position.
C4_NoPositionOverlap ==
    \A n \in 1..Len(last.search) :
        \A pos \in DOMAIN last.search[n].required_positions
                     \cap DOMAIN last.search[n].excluded_positions :
            last.search[n].required_positions[pos]
                \notin Chars(last.search[n].excluded_positions[pos])

\* A conversation searched with a position both fixed and excluded from.
C4_Witness ==
    /\ Searched
    /\ DOMAIN last.search[1].required_positions
          \cap DOMAIN last.search[1].excluded_positions # {}

\* Whenever the word filter is invoked, every required letter is placeable.
SearchPlaceable ==
    \A n \in 1..Len(last.search) :
        AllPlaceable(last.search[n].required_chars,
                     last.search[n].required_positions,
                     last.search[n].excluded_positions)

\* The step is get_excluded_positions handling a text that parses to a map
\* under which some stored required letter has no position left.
UnplaceableInput(key, text) ==
    /\ conversations[key] = EXCLUDED_POSITIONS
    /\ positions_validated[text][FALSE].is_valid
    /\ ~ AllPlaceable(get(user_data[user_of(key)], "required", <<>>),
                      get(user_data[user_of(key)], "required_positions", <<>>),
                      positions_validated[text][FALSE].parsed_positions)
    /\ get_excluded_positions(key, text)

\* The parsed map of the text excludes, at some position, the letter that
\* the stored required positions fix there.
OverlappingInput(key, text) ==
    \E pos \in DOMAIN positions_validated[text][FALSE].parsed_positions :
        /\ pos \in DOMAIN get(user_data[user_of(key)], "required_positions", <<>>)
        /\ get(user_data[user_of(key)], "required_positions", <<>>)[pos]
              \in Chars(positions_validated[text][FALSE].parsed_positions[pos])

\* C5 as stated: whenever the word filter is invoked every required letter is
\* placeable, and an excluded-position input under which some required
\* letter has no free position is always rejected with
\* LetterFullyExcludedConflict, without a search.
C5_AlwaysFullyExcludedConflict ==
    [][ /\ SearchPlaceable'
        /\ \A key \in Keys, text \in Texts :
              UnplaceableInput(key, text)
                  => /\ last'.error = "LetterFullyExcludedConflict"
                     /\ last'.search = <<>>
                     /\ conversations'[key] = EXCLUDED_POSITIONS ]_vars

\* C5: whenever the word filter is invoked every required letter is
\* placeable, and an excluded-position input under which some required
\* letter has no free position is always rejected without a search: with
\* PositionOverlapConflict when the input also excludes a fixed letter from
\* its own position, with LetterFullyExcludedConflict otherwise.
C5_UnplaceableRejected ==
    [][ /\ SearchPlaceable'
        /\ \A key \in Keys, text \in Texts :
              UnplaceableInput(key, text)
                  => /\ last'.error = IF OverlappingInput(key, text)
                                      THEN "PositionOverlapConflict"
                                      ELSE "LetterFullyExcludedConflict"
                     /\ last'.search = <<>>
                     /\ conversations'[key] = EXCLUDED_POSITIONS ]_vars

\* An excluded-position input was rejected because a required letter had no
\* position left.
C5_Witness ==
    /\ last.handler = "get_excluded_positions"
    /\ last.error = "LetterFullyExcludedConflict"
    /\ conversations[last.key] = EXCLUDED_POSITIONS
    /\ get(user_data[user_of(last.key)], "required", <<>>) # <<>>

\* The step is get_required_positions handling a text whose map fixes a
\* letter of the stored excluded letters.
ExcludedLetterFixed(key, text) ==
    /\ conversations[key] = REQUIRED_POSITIONS
    /\ positions_validated[text][TRUE].is_valid
    /\ \E pos \in DOMAIN positions_validated[text][TRUE].parsed_positions :
          positions_validated[text][TRUE].parsed_positions[pos]
              \in Chars(get(user_data[user_of(key)], "excluded", <<>>))
    /\ get_required_positions(key, text)

\* C6: in REQUIRED_POSITIONS an input whose map fixes a letter of the stored
\* excluded letters is rejected with PositionLetterConflict and the state
\* stays REQUIRED_POSITIONS; and whenever the word filter is invoked, no
\* letter of the required positions is among the excluded letters.
C6_NoExcludedLetterFixed ==
    [][ /\ \A key \in Keys, text \in Texts :
              ExcludedLetterFixed(key, text)
                  => /\ last'.error = "PositionLetterConflict"
                     /\ conversations'[key] = REQUIRED_POSITIONS
        /\ \A n \in 1..Len(last'.search) :
              \A pos \in DOMAIN last'.search[n].required_positions :
                  last'.search[n].required_positions[pos]
                      \notin Chars(last'.search[n].excluded_chars) ]_vars

\* In a collecting state a conversation has accepted one input in each of
\* the states before it, and in none other.
AcceptedInOrder ==
    \A key \in Keys :
        conversations[key] \in Collecting
            => DOMAIN accepted[key] = AcceptedBefore(conversations[key])

\* C7: a conversation changes state only from END to REQUIRED by start, from
\* a collecting state to exactly the next on an accepted input, from
\* EXCLUDED_POSITIONS to END with the search once the three earlier states
\* have each accepted an input, or to END by cancel; and an accepted input
\* always moves it.
C7_FixedOrder ==
    [][ /\ AcceptedInOrder'
        /\ \A key \in Keys :
              /\ conversations'[key] # conversations[key]
                    => \/ /\ conversations[key] = END
                          /\ conversations'[key] = REQUIRED
                          /\ last'.handler = "start"
                       \/ /\ conversations[key] \in Collecting \ {EXCLUDED_POSITIONS}
                          /\ conversations'[key] = conversations[key] + 1
                          /\ last'.key = key /\ last'.error = "none"
                          /\ last'.handler # "cancel"
                       \/ /\ conversations[key] = EXCLUDED_POSITIONS
                          /\ conversations'[key] = END
                          /\ last'.key = key /\ last'.search # <<>>
                          /\ DOMAIN accepted[key] = AcceptedBefore(EXCLUDED_POSITIONS)
                       \/ /\ conversations[key] \in Collecting
                          /\ conversations'[key] = END
                          /\ last'.key = key /\ last'.handler = "cancel"
              /\ (last'.key = key /\ last'.error = "none")
                    => conversations'[key] # conversations[key] ]_vars

\* A conversation completed: its last handler searched and ended it.
C7_Witness ==
    /\ Searched
    /\ last.handler = "get_excluded_positions"
    /\ conversations[last.key] = END

\* C8: in a collecting state every input that fails parsing or is detected as
\* a conflict is answered with the error and the repeat of the prompt, leaves
\* the conversation in its state and makes no search.
C8_ErrorsRepeatPrompt ==
    [][ \A key \in Keys :
            (last'.key = key /\ last'.error # "none")
                => /\ conversations[key] \in Collecting
                   /\ conversations'[key] = conversations[key]
                   /\ last'.search = <<>>
                   /\ last'.reply = "error" ]_vars

\* C9: the word filter is invoked only by an accepted input in
\* EXCLUDED_POSITIONS, once, with the values the conversation accepted in its
\* four states, and the conversation then ends; every such input invokes it;
\* no rejected input does.
C9_SearchOncePerCompletion ==
    [][ \A key \in Keys :
          /\ (last'.key = key /\ last'.search # <<>>)
                => /\ Len(last'.search) = 1
                   /\ conversations[key] = EXCLUDED_POSITIONS
                   /\ conversations'[key] = END
                   /\ last'.error = "none"
                   /\ DOMAIN accepted[key] = AcceptedBefore(EXCLUDED_POSITIONS)
                   /\ last'.search[1].required_chars = accepted[key]["required"]
                   /\ last'.search[1].excluded_chars = accepted[key]["excluded"]
                   /\ last'.search[1].required_positions
                         = accepted[key]["required_positions"]
                   /\ last'.search[1].excluded_positions
                         = user_data'[user_of(key)]["excluded_positions"]
          /\ (/\ conversations[key] = EXCLUDED_POSITIONS
              /\ conversations'[key] = END
              /\ last'.handler # "cancel")
                => last'.key = key /\ Len(last'.search) = 1
          /\ (last'.key = key /\ last'.error # "none") => last'.search = <<>> ]_vars

\* C10: in every collecting state cancel can be taken, and it ends the
\* conversation without a search.
C10_CancelEnds ==
    [][ \A key \in Keys :
          /\ conversations[key] \in Collecting => ENABLED cancel(key)
          /\ (last'.key = key /\ last'.handler = "cancel")
                => /\ conversations[key] \in Collecting
                   /\ conversations'[key] = END
                   /\ last'.search = <<>> ]_vars

\* A conversation that had accepted inputs was cancelled.
C10_Witness ==
    /\ last.handler = "cancel"
    /\ last.reply = "cancelled"
    /\ conversations[last.key] = END
    /\ "required_positions" \in DOMAIN user_data[user_of(last.key)]

\* The four fragments stored for the conversation of a key.
Fragments(key) == user_data[user_of(key)]

\* C11: an update handled for one conversation changes neither the state nor
\* a stored fragment of another conversation, and a search is made with the
\* fragments its own conversation accepted.
C11_SessionsIsolated ==
    [][ \A key \in Keys :
          /\ (last'.key \in Keys /\ last'.key # key)
                => /\ conversations'[key] = conversations[key]
                   /\ Fragments(key)' = Fragments(key)
          /\ (last'.key = key /\ last'.search # <<>>)
                => /\ DOMAIN accepted[key] = AcceptedBefore(EXCLUDED_POSITIONS)
                   /\ last'.search[1].required_chars = accepted[key]["required"]
                   /\ last'.search[1].excluded_chars = accepted[key]["excluded"]
                   /\ last'.search[1].required_positions
                         = accepted[key]["required_positions"] ]_vars

\* C12: whenever a conversation enters REQUIRED, none of the four fragments
\* is stored for its user: nothing an earlier conversation accepted or left
\* behind is there for the search to read.
C12_FreshOnEntry ==
    [][ \A key \in Keys :
          (conversations[key] # REQUIRED /\ conversations'[key] = REQUIRED)
              => /\ last'.handler = "start"
                 /\ DOMAIN Fragments(key)' = {} ]_vars

\* A conversation has just been entered and nothing is stored for its user,
\* although fragments had been stored for that user before the entry (another
\* conversation of the user has accepted some).
C12_Witness ==
    /\ last.handler = "start"
    /\ conversations[last.key] = REQUIRED
    /\ DOMAIN Fragments(last.key) = {}
    /\ \E key \in Keys : key # last.key /\ DOMAIN accepted[key] # {}

\* C13: when a conversation ends, by its search or by cancel, no fragment
\* remains stored for it.
C13_DiscardedAtEnd ==
    [][ \A key \in Keys :
          (conversations[key] \in Collecting /\ conversations'[key] = END)
              => DOMAIN Fragments(key)' = {} ]_vars

(***************************************************************************)
(* The bot over a dictionary file without words                            *)
(***************************************************************************)

\* rus.txt with blank lines only.
EmptyFile == << Str(<<"\n">>), Str(<<" ", "\n">>) >>

EmptyInit == Loaded(EmptyFile, Keys)

EmptySpec == EmptyInit /\ [][Next]_vars

\* C14: with a dictionary that holds no word, no conversation completes a
\* search and reports that no words were found.
C14_EmptyDictionaryNotSearched ==
    DICTIONARY = <<>> => ~ (Searched /\ last.reply = "not_found")

(***************************************************************************)
(* The result message on its own: formed of lists of up to MaxFound words   *)
(***************************************************************************)

\* The longest list of found words a message is formed of.
MaxFound == 52

\* The letters the words of a list are made of.
FoundLetters == <<ord("cyr_a"), ord("cyr_b"), ord("cyr_v")>>

\* Distinct words of five letters, numbered.
FoundWord(k) ==
    << FoundLetters[(k % 3) + 1], FoundLetters[((k \div 3) % 3) + 1],
       FoundLetters[((k \div 9) % 3) + 1], FoundLetters[((k \div 27) % 3) + 1],
       FoundLetters[((k \div 81) % 3) + 1] >>

\* A list of n distinct words, the words from number first on.
RECURSIVE FoundList(_, _)
FoundList(n, first) ==
    IF n = 0 THEN <<>> ELSE Append(FoundList(n - 1, first), FoundWord(first + n))

\* The message formed of a list that generate_real_words has returned.
Present(found_words) ==
    /\ last' = Outcome(<<>>, "result_message", "none", "none",
                       <<[found_words |-> found_words,
                          message |-> result_message(found_words)]>>)
    /\ UNCHANGED <<DICTIONARY, conversations, user_data, accepted>>

PresentNext ==
    /\ last = NoUpdate
    /\ \E n \in 0..MaxFound, first \in 0..2 : Present(FoundList(n, first))

PresentSpec == Init /\ [][PresentNext]_vars

\* C15: the message of a list of n words reports the total n; up to 50 words
\* it shows them all; beyond 50 it shows exactly the first 50, in the order
\* of the list, and the count n - 50 of the others.
C15_ResultPresentation ==
    \A k \in 1..Len(last.search) :
        "message" \in DOMAIN last.search[k]
            => /\ last.search[k].message.total = Len(last.search[k].found_words)
               /\ Len(last.search[k].found_words) <= 50
                     => /\ last.search[k].message.words = last.search[k].found_words
                        /\ ~ last.search[k].message.truncated
               /\ Len(last.search[k].found_words) > 50
                     => /\ Len(last.search[k].message.words) = 50
                        /\ \A i \in 1..50 :
                              last.search[k].message.words[i]
                                  = last.search[k].found_words[i]
                        /\ last.search[k].message.truncated
                        /\ last.search[k].message.more
                              = Len(last.search[k].found_words) - 50

\* A message formed of more than 50 words.
C15_Witness ==
    /\ last.handler = "result_message"
    /\ Len(last.search[1].found_words) > 50
    /\ last.search[1].message.truncated

(***************************************************************************)
(* validate_positions_input on its own: called with texts of up to         *)
(* MaxTokens tokens                                                        *)
(***************************************************************************)

\* The most tokens a text of a direct call holds.
MaxTokens == 3

\* Tokens: a position with one letter, twice; another; one with two letters; two
\* digits; no digit; no letter; a position beyond 5; no Russian letter; a
\* digit that is not a decimal digit.
ParseTokens ==
    { Str(<<"1", "cyr_a">>), Str(<<"1", "cyr_b">>), Str(<<"5", "cyr_b">>),
      Str(<<"2", "cyr_a", "cyr_b">>), Str(<<"1", "2", "cyr_a">>), Str(<<"cyr_a">>), Str(<<"4">>),
      Str(<<"6", "cyr_b">>), Str(<<"3", "!">>), Str(<<"sup2", "cyr_a">>) }

\* The lists of one to MaxTokens tokens.
TokenLists == UNION {[1..n -> ParseTokens] : n \in 1..MaxTokens}

\* " ".join(tokens)
RECURSIVE join(_)
join(tokens) ==
    IF Len(tokens) = 1 THEN tokens[1]
    ELSE tokens[1] \o <<ord(" ")>> \o join(Tail(tokens))

\* A direct call of validate_positions_input on the text of the tokens.
Parse(tokens, single_char_only) ==
    /\ last' = Outcome(<<>>, "validate_positions_input", "none", "none",
                       <<[tokens |-> tokens, single_char_only |-> single_char_only,
                          returned |-> validate_positions_input(join(tokens),
                                                                single_char_only)]>>)
    /\ UNCHANGED <<DICTIONARY, conversations, user_data, accepted>>

ParseNext ==
    /\ last = NoUpdate
    /\ \E tokens \in TokenLists, single_char_only \in BOOLEAN :
          Parse(tokens, single_char_only)

ParseSpec == Init /\ [][ParseNext]_vars

\* The last step was a direct call of validate_positions_input.
Parsed == last.handler = "validate_positions_input"

\* A character is a letter of the target alphabet.
TargetLetter(c) == (c >= 1072 /\ c <= 1103) \/ c = 1105

\* A token is a position 1..5 followed by letters: one digit from 1 to 5,
\* then characters that start with a non-digit and hold a letter of the
\* target alphabet, exactly one when one letter only is allowed.
WellFormedToken(token, single_letter_only) ==
    /\ Len(token) >= 2
    /\ token[1] \in 49..53
    /\ token[2] \notin 48..57
    /\ \E i \in 2..Len(token) : TargetLetter(token[i])
    /\ single_letter_only
          => Cardinality({i \in 2..Len(token) : TargetLetter(token[i])}) = 1

\* The tokens of a call that fail.
FailingTokens(call) ==
    {i \in 1..Len(call.tokens) :
        ~ WellFormedToken(call.tokens[i], call.single_char_only)}

\* C16: when at least one token of the text fails, validate_positions_input
\* returns invalid with an empty map, whatever valid tokens the text holds,
\* and with one message for every failing token.
C16_AllOrNothing ==
    Parsed =>
        \A k \in 1..Len(last.search) :
            FailingTokens(last.search[k]) # {}
                => /\ ~ last.search[k].returned.raised
                   /\ ~ last.search[k].returned.is_valid
                   /\ DOMAIN last.search[k].returned.parsed_positions = {}
                   /\ Len(last.search[k].returned.errors)
                         = Cardinality(FailingTokens(last.search[k]))
                   /\ \A i \in FailingTokens(last.search[k]) :
                         \E e \in 1..Len(last.search[k].returned.errors) :
                             last.search[k].returned.errors[e].part
                                 = last.search[k].tokens[i]

\* A token starts with more than one digit.
MultiDigitToken(token) ==
    Len(token) >= 2 /\ token[1] \in 48..57 /\ token[2] \in 48..57

\* C17: a map that validate_positions_input returns as valid has its keys in
\* 1..5 and as values non-empty strings of letters of the target alphabet,
\* of one letter when one letter only is allowed; and a token that starts
\* with more than one digit is rejected as MultiDigitPosition, the text that
\* holds it is not accepted and gives no map.
C17_AcceptedMapShape ==
    Parsed =>
        \A k \in 1..Len(last.search) :
            /\ last.search[k].returned.is_valid
                  => \A pos \in DOMAIN last.search[k].returned.parsed_positions :
                        /\ pos \in 1..5
                        /\ last.search[k].returned.parsed_positions[pos] # <<>>
                        /\ \A i \in 1..Len(last.search[k].returned.parsed_positions[pos]) :
                              TargetLetter(last.search[k].returned.parsed_positions[pos][i])
                        /\ last.search[k].single_char_only
                              => Len(last.search[k].returned.parsed_positions[pos]) = 1
            /\ \A i \in 1..Len(last.search[k].tokens) :
                  MultiDigitToken(last.search[k].tokens[i])
                      => /\ parse_part(last.search[k].tokens[i],
                                       last.search[k].single_char_only).kind
                               = "MultiDigitPosition"
                         /\ ~ last.search[k].returned.is_valid
                         /\ DOMAIN last.search[k].returned.parsed_positions = {}

\* A text of several tokens accepted with one letter only allowed.
C17_Witness ==
    /\ Parsed
    /\ last.search[1].single_char_only
    /\ last.search[1].returned.is_valid
    /\ Cardinality(DOMAIN last.search[1].returned.parsed_positions) >= 2

(***************************************************************************)
(* The letters step on its own: the text of a message lowered and          *)
(* stripped, validated, and filtered as get_required stores it             *)
(***************************************************************************)

\* The most characters a message text of a direct call holds.
MaxChars == 3

\* The characters of the message texts.
LetterChars ==
    { ord("cyr_a"), ord("CYR_YO"), ord("z"), ord("5"), ord("sup2"),
      ord("-"), ord(" "), ord("!") }

LetterMessages == UNION {[1..n -> LetterChars] : n \in 1..MaxChars}

\* What get_required computes of a message text: text, the validation of it
\* and the letters it would store.
Letters(message_text) ==
    /\ last' = Outcome(<<>>, "validate_letters_input", "none", "none",
                       <<[message_text |-> message_text,
                          text |-> strip(lower(message_text)),
                          returned |-> validate_letters_input(strip(lower(message_text))),
                          stored |-> letters_of(strip(lower(message_text)))]>>)
    /\ UNCHANGED <<DICTIONARY, conversations, user_data, accepted>>

LettersNext ==
    /\ last = NoUpdate
    /\ \E message_text \in LetterMessages : Letters(message_text)

LettersSpec == Init /\ [][LettersNext]_vars

\* A character is a digit, a decimal one or another of Unicode.
Digit(c) == c \in 48..57 \/ c = 178

\* The outcome the letters step is to have on a text.
LettersOutcome(text) ==
    IF text = <<45>> THEN "dash"
    ELSE IF \E i \in 1..Len(text) : Digit(text[i]) THEN "InvalidCharacters"
    ELSE IF \E i \in 1..Len(text) : text[i] \in 97..122 THEN "ForeignAlphabet"
    ELSE IF ~ \E i \in 1..Len(text) : TargetLetter(text[i]) THEN "NoValidLetters"
    ELSE "letters"

\* C18: a bare dash gives the empty letter set; otherwise a digit gives
\* InvalidCharacters, else a letter a-z gives ForeignAlphabet, else the lack
\* of a letter of the target alphabet gives NoValidLetters; and on success
\* the letters stored are exactly the letters of the target alphabet that
\* the text holds.
C18_ParseLetters ==
    last.handler = "validate_letters_input" =>
        \A k \in 1..Len(last.search) :
            /\ LettersOutcome(last.search[k].text) = "dash"
                  => last.search[k].returned.is_valid /\ last.search[k].stored = <<>>
            /\ LettersOutcome(last.search[k].text)
                    \in {"InvalidCharacters", "ForeignAlphabet", "NoValidLetters"}
                  => /\ ~ last.search[k].returned.is_valid
                     /\ last.search[k].returned.error_msg
                           = LettersOutcome(last.search[k].text)
            /\ LettersOutcome(last.search[k].text) = "letters"
                  => /\ last.search[k].returned.is_valid
                     /\ {last.search[k].stored[i] : i \in 1..Len(last.search[k].stored)}
                           = {last.search[k].text[i] :
                                i \in {n \in 1..Len(last.search[k].text) :
                                          TargetLetter(last.search[k].text[n])}}

\* A text accepted of which a character that is no letter was dropped and
\* a capital letter was kept as its small letter.
C18_Witness ==
    /\ last.handler = "validate_letters_input"
    /\ last.search[1].returned.is_valid
    /\ last.search[1].stored # <<>>
    /\ Len(last.search[1].stored) < Len(last.search[1].text)
    /\ \E i \in 1..Len(last.search[1].stored) : last.search[1].stored[i] = 1105

\* The errors of the three steps that test a fragment against the others.
ConflictErrors ==
    {"RequiredExcludedConflict", "PositionLetterConflict",
     "PositionOverlapConflict", "LetterFullyExcludedConflict"}

\* C19: an input rejected for a conflict leaves every stored fragment of the
\* conversation as it was before the input.
C19_StoredOnlyOnSuccess ==
    [][ \A key \in Keys :
          (last'.key = key /\ last'.error \in ConflictErrors)
              => Fragments(key)' = Fragments(key) ]_vars

\* The step is get_excluded_positions rejecting a text because a required
\* letter is counted as excluded everywhere.
FullyExcludedRejection(key, text) ==
    /\ conversations[key] = EXCLUDED_POSITIONS
    /\ positions_validated[text][FALSE].is_valid
    /\ get_excluded_positions(key, text)
    /\ last'.error = "LetterFullyExcludedConflict"

\* C20: whenever get_excluded_positions rejects with
\* LetterFullyExcludedConflict, some required letter has no legal placement:
\* each of the 5 positions is excluded for it or fixed to another letter.
C20_RejectionExact ==
    [][ \A key \in Keys, text \in Texts :
          FullyExcludedRejection(key, text)
              => ~ AllPlaceable(get(user_data[user_of(key)], "required", <<>>),
                                get(user_data[user_of(key)], "required_positions", <<>>),
                                positions_validated[text][FALSE].parsed_positions) ]_vars

\* The step is get_excluded_positions handling the text.
ExcludedPositionsStep(key, text) ==
    /\ conversations[key] = EXCLUDED_POSITIONS
    /\ get_excluded_positions(key, text)

\* C21: in EXCLUDED_POSITIONS a text that fails parsing ends with its parse
\* error, never with a conflict and never with a search; and a text that
\* parses and excludes a fixed letter from its own position is rejected
\* with PositionOverlapConflict, also when a required letter has no position
\* left under it.
C21_ChecksInOrder ==
    [][ \A key \in Keys, text \in Texts :
          ExcludedPositionsStep(key, text)
              => /\ ~ positions_validated[text][FALSE].is_valid
                    => /\ last'.error = positions_validated[text][FALSE].error_msg
                       /\ last'.error \notin ConflictErrors
                       /\ last'.search = <<>>
                 /\ (/\ positions_validated[text][FALSE].is_valid
                     /\ OverlappingInput(key, text))
                    => /\ last'.error = "PositionOverlapConflict"
                       /\ last'.search = <<>> ]_vars

\* An input was rejected with PositionOverlapConflict in a conversation
\* where a text breaks both rules: it excludes a fixed letter from its own
\* position and leaves a required letter no position.
C21_Witness ==
    /\ last.key \in Keys
    /\ last.handler = "get_excluded_positions"
    /\ last.error = "PositionOverlapConflict"
    /\ conversations[last.key] = EXCLUDED_POSITIONS
    /\ \E text \in Texts :
          /\ positions_validated[text][FALSE].is_valid
          /\ OverlappingInput(last.key, text)
          /\ ~ AllPlaceable(get(Fragments(last.key), "required", <<>>),
                            get(Fragments(last.key), "required_positions", <<>>),
                            positions_validated[text][FALSE].parsed_positions)

\* The position a well-formed token names, and its letters.
TokenPosition(token) == token[1] - 48

TokenLetters(token) ==
    SelectSeq(SubSeq(token, 2, Len(token)), TargetLetter)

\* Every token of the call is well formed and two of them name one position.
RepeatedPosition(call) ==
    /\ FailingTokens(call) = {}
    /\ \E i, j \in 1..Len(call.tokens) :
          i < j /\ TokenPosition(call.tokens[i]) = TokenPosition(call.tokens[j])

\* The last token of the call that names the position.
LastNaming(call, pos) ==
    CHOOSE i \in 1..Len(call.tokens) :
        /\ TokenPosition(call.tokens[i]) = pos
        /\ \A j \in 1..Len(call.tokens) :
              TokenPosition(call.tokens[j]) = pos => j <= i

\* C22: a text of valid tokens of which several name one position is
\* accepted, and the map holds for each position the letters of the last
\* token that names it and no others; so the word filter, given the map as
\* excluded positions, keeps every word that avoids those letters there.
C22_LastTokenWins ==
    Parsed =>
        \A k \in 1..Len(last.search) :
            RepeatedPosition(last.search[k])
                => /\ last.search[k].returned.is_valid
                   /\ DOMAIN last.search[k].returned.parsed_positions
                         = {TokenPosition(last.search[k].tokens[i]) :
                               i \in 1..Len(last.search[k].tokens)}
                   /\ \A pos \in DOMAIN last.search[k].returned.parsed_positions :
                         last.search[k].returned.parsed_positions[pos]
                             = TokenLetters(last.search[k].tokens[
                                   LastNaming(last.search[k], pos)])
                   /\ \A n \in 1..Len(DICTIONARY) :
                         (/\ Len(DICTIONARY[n]) = 5
                          /\ \A i \in 1..Len(last.search[k].tokens) :
                                i = LastNaming(last.search[k],
                                               TokenPosition(last.search[k].tokens[i]))
                                    => ~ In(DICTIONARY[n][TokenPosition(last.search[k].tokens[i])],
                                            TokenLetters(last.search[k].tokens[i])))
                             => Occurrences(DICTIONARY[n],
                                    generate_real_words(<<>>, <<>>, <<>>,
                                        last.search[k].returned.parsed_positions)) = 1

\* A text accepted whose first token excludes from position 1 the letter a
\* word of the dictionary has there, whose later token names position 1
\* again with another letter, and the filter keeps the word.
C22_Witness ==
    /\ Parsed
    /\ RepeatedPosition(last.search[1])
    /\ last.search[1].returned.is_valid
    /\ \E n \in 1..Len(DICTIONARY) :
          /\ In(DICTIONARY[n][1], TokenLetters(last.search[1].tokens[1]))
          /\ TokenPosition(last.search[1].tokens[1]) = 1
          /\ Occurrences(DICTIONARY[n],
                 generate_real_words(<<>>, <<>>, <<>>,
                     last.search[1].returned.parsed_positions)) = 1

====
